---- MODULE Spec2Model ----
(***************************************************************************)
(* Quick Timer: the scheduling coordinator (QuickTimerCoordinator) and the *)
(* task store (QuickTimerStore) as a state machine.  Every coroutine of    *)
(* the coordinator is a process whose pc is the await it is suspended at;  *)
(* the code between two awaits runs as one step of the event loop.         *)
(***************************************************************************)
EXTENDS Integers, Sequences, FiniteSets, TLC

(* ---------------- bounds of the model ---------------- *)
MaxTime == 2
MaxCalls == 2
MaxChanges == 1
MaxRestarts == 1
MaxOps == 2
MaxPrefOps == 4
MaxStoreOps == 3

(* ---------------- program constants ---------------- *)
STORAGE_VERSION == 3
MigrateThreshold == 4

ACTION_ON == "on"
ACTION_OFF == "off"
ACTION_TOGGLE == "toggle"
STATE_ON == "on"
STATE_OFF == "off"
TIME_MODE_RELATIVE == "relative"
TIME_MODE_ABSOLUTE == "absolute"
UNIT_SECONDS == "seconds"
UNIT_MINUTES == "minutes"
UNIT_HOURS == "hours"
Units == {UNIT_SECONDS, UNIT_MINUTES, UNIT_HOURS}

\* time is counted in seconds; a day, and the largest delay run_action accepts
Day == 86400
MaxDelay == 86400

\* at_time after split(':'): the parts that are numbers, << >> when it is
\* missing or empty; a text with a part that is no number counts as one part
NoAtTime == << >>

Keys == {"light.a", "switch.b"}
Actions == {ACTION_ON, ACTION_OFF, ACTION_TOGGLE, "open_cover"}
NoState == "None"
StateValues == {STATE_ON, STATE_OFF, NoState}

(* a stored time string: n >= 1 is the ISO text of instant n, 0 is an      *)
(* absent or empty field, -1 is text that does not parse                   *)
NoTimeField == 0
GarbageTime == -1
NoneTime == -2

(* ---------------- dictionaries ---------------- *)
EmptyDict == << >>
Del(f, k) == [x \in (DOMAIN f) \ {k} |-> f[x]]
Put(f, k, v) == [x \in (DOMAIN f) \cup {k} |-> IF x = k THEN v ELSE f[x]]

VARIABLES
    data,             \* QuickTimerStore._data
    disk,             \* the durable image written by Store.async_save
    diskVersion,      \* version stamped on the durable image
    scheduled_tasks,  \* QuickTimerCoordinator._scheduled_tasks: key -> timer handle
    state_listeners,  \* QuickTimerCoordinator._state_listeners: key -> scheduled_action
    timers,           \* every callback made by _create_action_callback with its timer,
                      \* and the executor calls and bus events made on its behalf
    bus,              \* per key, the executor calls and bus events made for no timer
    procs,            \* the coroutines in flight
    returned,         \* the calls that have returned, in order
    clock,            \* dt_util.now()
    phase,            \* "boot" before async_setup, "restoring", then "up"
    calls,            \* service calls made so far
    changes,          \* state-change events delivered so far
    restarts,         \* process restarts so far
    boot,             \* the task map and the time async_restore_tasks last started from
    prefs,            \* QuickTimerPreferencesStore._data
    sensor,           \* QuickTimerCoordinator._sensor is not None
    handed,           \* the structures get_preferences and get_all_preferences
                      \* have returned, as their callers hold them
    owed              \* the keys whose record has led to no execution and no cancellation yet:
                      \* .persisted of the records on disk, .loaded of the records loaded

vars == <<data, disk, diskVersion, scheduled_tasks, state_listeners, timers, bus,
          procs, returned, clock, phase, calls, changes, restarts, boot, prefs,
                   sensor, handed, owed>>

(* the coordinator and store state that the coroutines read and write *)
Machine == [data |-> data, disk |-> disk, diskVersion |-> diskVersion,
            sched |-> scheduled_tasks, lst |-> state_listeners,
            timers |-> timers, bus |-> bus, owed |-> owed, now |-> clock,
            prefs |-> prefs, sensor |-> sensor]

(* a coroutine: kind is the outermost call, pc the await it is suspended at *)
NewProc(kind, key) ==
    [kind |-> kind, pc |-> "start", key |-> key, action |-> "none",
     run_now |-> FALSE, time_mode |-> TIME_MODE_RELATIVE, at_time |-> NoAtTime,
     delay |-> 0, unit |-> UNIT_MINUTES, delay_seconds |-> 0,
     nflag |-> FALSE, silent |-> FALSE, reason |-> "user_request",
     notify |-> FALSE, tnotify |-> FALSE, found |-> FALSE, tid |-> 0,
     todo |-> << >>, snap |-> EmptyDict, now |-> 0, end |-> 0,
     rets |-> << >>, res |-> "none", began |-> 0, pre |-> FALSE]

Out(m, p) == [m |-> m, p |-> p]

(* ---------------- QuickTimerStore ---------------- *)
\* has_task
has_task(m, k) == k \in DOMAIN m.data

\* async_save resolving: the full in-memory map is the durable image
async_save(m) == [m EXCEPT !.disk = m.data, !.diskVersion = STORAGE_VERSION]

\* async_remove_task up to its await: TRUE when it suspends in async_save
remove_suspends(m, k) == k \in DOMAIN m.data

\* mutant: the record is saved but not deleted
async_remove_task_keeps(m, k) == m

async_remove_task(m, k) ==
    IF k \in DOMAIN m.data THEN [m EXCEPT !.data = Del(m.data, k)] ELSE m

\* mutant: a record that is already stored under the key is left as it is
async_add_task_inserts_only(m, task_id, scheduled_time, end_time, delay_seconds, notify) ==
    IF task_id \in DOMAIN m.data THEN m
    ELSE [m EXCEPT !.data = Put(m.data, task_id,
                                [task_id |-> task_id, scheduled_time |-> scheduled_time,
                                 end_time |-> end_time, delay_seconds |-> delay_seconds,
                                 start_actions |-> << >>, finish_actions |-> << >>,
                                 notify |-> notify])]

\* async_add_task up to its await, for a call that binds: the record is
\* written under task_id, over whatever was there
async_add_task(m, task_id, scheduled_time, end_time, delay_seconds, notify) ==
    [m EXCEPT !.data = Put(m.data, task_id,
                           [task_id |-> task_id, scheduled_time |-> scheduled_time,
                            end_time |-> end_time, delay_seconds |-> delay_seconds,
                            start_actions |-> << >>, finish_actions |-> << >>,
                            notify |-> notify])]

\* mutant: the stored records are handed over as they are
_async_migrate_func_keeps(old_major_version, old_data) == old_data

\* _async_migrate_func: every older version is answered with an empty map
_async_migrate_func(old_major_version, old_data) ==
    IF old_major_version < MigrateThreshold THEN EmptyDict ELSE EmptyDict

\* async_load: the stored map, migrated when its version is not the current one
async_load(version, stored) ==
    IF version = STORAGE_VERSION THEN stored ELSE _async_migrate_func(version, stored)

(* ---------------- QuickTimerPreferencesStore ---------------- *)
\* the entries a history keeps
HistoryLimit == 3

\* a history entry; a field the entry does not have is held as the value its
\* get(...) default prints like: 0 for delay, "" for unit, << >> for at_time
\* and for the action lists
HistoryEntry(action, time_mode, delay, unit, at_time, start_actions, finish_actions, timestamp) ==
    [action |-> action, time_mode |-> time_mode, delay |-> delay, unit |-> unit,
     at_time |-> at_time, start_actions |-> start_actions,
     finish_actions |-> finish_actions, timestamp |-> timestamp]

\* the comparable key async_add_to_history builds from an entry
entry_key(h) ==
    <<h.time_mode, h.delay, h.unit, h.at_time, h.start_actions, h.finish_actions>>

\* history[:n]
Truncate(history, n) == SubSeq(history, 1, IF Len(history) < n THEN Len(history) ELSE n)

\* dict.update: the fields of new are added to old or overwrite them
update(old, new) ==
    [x \in (DOMAIN old) \cup (DOMAIN new) |-> IF x \in DOMAIN new THEN new[x] ELSE old[x]]

\* mutant: the given dictionary replaces the record
async_set_preferences_replaces(m, entity_id, preferences) ==
    [m EXCEPT !.prefs = Put(m.prefs, entity_id,
                            IF "history" \in DOMAIN preferences
                            THEN update(preferences,
                                        [history |-> Truncate(preferences.history, HistoryLimit)])
                            ELSE preferences)]

\* async_set_preferences up to its await: the merge and the cut of history
async_set_preferences(m, entity_id, preferences) ==
    LET old == IF entity_id \in DOMAIN m.prefs THEN m.prefs[entity_id] ELSE EmptyDict
        merged == update(old, preferences)
        cut == IF "history" \in DOMAIN merged
               THEN update(merged, [history |-> Truncate(merged.history, HistoryLimit)])
               ELSE merged
    IN [m EXCEPT !.prefs = Put(m.prefs, entity_id, cut)]

\* mutant: the new entry goes last
async_add_to_history_appends(m, entity_id, history_entry) ==
    LET old == IF entity_id \in DOMAIN m.prefs THEN m.prefs[entity_id] ELSE EmptyDict
        history == IF "history" \in DOMAIN old THEN old.history ELSE << >>
        kept == SelectSeq(history, LAMBDA h : entry_key(h) # entry_key(history_entry))
        new == Truncate(kept \o <<history_entry>>, HistoryLimit)
    IN [m EXCEPT !.prefs = Put(m.prefs, entity_id, update(old, [history |-> new]))]

\* async_add_to_history up to its await: the entries with the key of the new
\* entry are dropped, the new entry goes first, the first three are kept
async_add_to_history(m, entity_id, history_entry) ==
    LET old == IF entity_id \in DOMAIN m.prefs THEN m.prefs[entity_id] ELSE EmptyDict
        history == IF "history" \in DOMAIN old THEN old.history ELSE << >>
        kept == SelectSeq(history, LAMBDA h : entry_key(h) # entry_key(history_entry))
        new == Truncate(<<history_entry>> \o kept, HistoryLimit)
    IN [m EXCEPT !.prefs = Put(m.prefs, entity_id, update(old, [history |-> new]))]

\* the nesting levels of a structure the store hands out: the map of all
\* records, a record, its history list, an entry of the list
LevelsOfRecord == {"record", "history", "entry"}
LevelsOfMap == {"map"} \cup LevelsOfRecord

\* mutant: dict.copy(), a new outermost dictionary around the same objects
shallow_copy(levels) == levels \ (IF "map" \in levels THEN {"map"} ELSE {"record"})

\* copy.deepcopy: the levels at which the copy is still the store's own
\* object; every level is built anew
deepcopy(levels) == {}

\* get_preferences: the record of the key and the levels it shares with the
\* store; with no record, or an empty one, a new empty dictionary
get_preferences(m, entity_id) ==
    LET rec == IF entity_id \in DOMAIN m.prefs THEN m.prefs[entity_id] ELSE EmptyDict
    IN [all |-> FALSE, key |-> entity_id, value |-> rec,
        shared |-> IF rec # EmptyDict THEN deepcopy(LevelsOfRecord) ELSE {}]

\* get_all_preferences
get_all_preferences(m) ==
    [all |-> TRUE, key |-> "none", value |-> m.prefs, shared |-> deepcopy(LevelsOfMap)]

\* what a caller does to a record it holds, at one nesting level: it sets a
\* field, it drops the first entry of the history, it rewrites a field of
\* the first entry
MutateRecord(rec, level) ==
    IF level = "record" THEN update(rec, [last_action |-> "tampered"])
    ELSE IF "history" \notin DOMAIN rec \/ rec.history = << >> THEN rec
    ELSE IF level = "history" THEN update(rec, [history |-> Tail(rec.history)])
    ELSE update(rec, [history |-> [rec.history EXCEPT ![1].timestamp = 0]])

\* what a caller does to a map of records: it deletes the key, or changes
\* the key's record
MutateMap(map, k, level) ==
    IF k \notin DOMAIN map THEN map
    ELSE IF level = "map" THEN Del(map, k)
    ELSE Put(map, k, MutateRecord(map[k], level))

(* ---------------- timers ---------------- *)
\* mutant: the cancel handle does nothing
CancelHandle_inert(ts, tid) == ts

\* invoking the cancel handle of async_track_point_in_time
CancelHandle(ts, tid) ==
    IF ts[tid].st = "armed" THEN [ts EXCEPT ![tid].st = "cancelled"] ELSE ts

\* _create_action_callback: the closure handed to the timer
\* mutant: the callback is bound to the reverse of the action
_create_action_callback_reversed(k, action, notify, notify_ha, notify_mobile) ==
    [key |-> k,
     action |-> IF action = ACTION_ON THEN ACTION_OFF
                ELSE IF action = ACTION_OFF THEN ACTION_ON ELSE ACTION_TOGGLE,
     nflag |-> (notify_ha \/ notify_mobile)]

_create_action_callback(k, action, notify, notify_ha, notify_mobile) ==
    [key |-> k, action |-> action, nflag |-> (notify_ha \/ notify_mobile)]

\* async_track_point_in_time: a timer for the closure cb, in state st
Timer(cb, end, st) ==
    [key |-> cb.key, action |-> cb.action, nflag |-> cb.nflag, end |-> end, st |-> st,
     execute |-> << >>, log_error |-> << >>, task_completed |-> << >>,
     task_cancelled |-> << >>, task_started |-> << >>]

NoBus == [execute_now |-> << >>, log_error |-> << >>, task_cancelled |-> << >>]

(* ---------------- _cleanup_task ---------------- *)
\* mutant: the handle entry is left in _scheduled_tasks
CleanupSync_keeps_handle(m, k) ==
    LET m2 == [m EXCEPT !.lst = IF k \in DOMAIN m.lst THEN Del(m.lst, k) ELSE m.lst]
    IN async_remove_task(m2, k)

\* mutant: the preference record of the key goes with the task
CleanupSync_drops_preferences(m, k) ==
    LET m1 == [m EXCEPT !.sched = IF k \in DOMAIN m.sched THEN Del(m.sched, k) ELSE m.sched]
        m2 == [m1 EXCEPT !.lst = IF k \in DOMAIN m1.lst THEN Del(m1.lst, k) ELSE m1.lst]
        m3 == [m2 EXCEPT !.prefs = Del(m2.prefs, k)]
    IN async_remove_task(m3, k)

\* _cleanup_task up to the await inside async_remove_task
CleanupSync(m, k) ==
    LET m1 == [m EXCEPT !.sched = IF k \in DOMAIN m.sched THEN Del(m.sched, k) ELSE m.sched]
        m2 == [m1 EXCEPT !.lst = IF k \in DOMAIN m1.lst THEN Del(m1.lst, k) ELSE m1.lst]
    IN async_remove_task(m2, k)

\* an executor call or a bus event of the given type with payload (key, arg),
\* made on behalf of timer tid (0: of no timer)
Log(m, type, key, arg, tid) ==
    IF tid # 0 THEN [m EXCEPT !.timers[tid][type] = Append(@, arg)]
    ELSE [m EXCEPT !.bus[key][type] = Append(@, arg)]
\* the record of k has led to an execution or to a cancellation
Settle(m, k) == [m EXCEPT !.owed = [persisted |-> m.owed.persisted \ {k},
                                    loaded |-> m.owed.loaded \ {k}]]
\* a coroutine that has returned keeps its arguments and its results only
Finish(p, res) ==
    [NewProc(p.kind, p.key) EXCEPT !.pc = "done", !.res = res, !.rets = p.rets,
                                   !.tid = p.tid, !.action = p.action,
                                   !.run_now = p.run_now, !.reason = p.reason,
                                   !.began = p.began, !.pre = p.pre,
                                   !.time_mode = p.time_mode, !.at_time = p.at_time,
                                   !.delay = p.delay, !.unit = p.unit,
                                   !.now = p.now, !.end = p.end,
                                   !.delay_seconds = p.delay_seconds]

(* ---------------- _execute_action ---------------- *)
\* the try/except around hass.services.async_call: does a failure of the
\* service call (ok = FALSE) leave _execute_action as an exception?
_execute_action_raises(ok) == FALSE

(* ---------------- the monitoring sensor ---------------- *)
\* the methods of QuickTimerSensor the coordinator can call
SensorMethods == {"update_tasks"}

\* mutant: the sensor takes whatever it is sent
_update_preferences_sensor_quiet(m) == FALSE

\* _update_preferences_sensor: with a sensor registered it calls
\* update_preferences on it, which raises AttributeError when the sensor has
\* no such method
_update_preferences_sensor_raises(m) == m.sensor /\ "update_preferences" \notin SensorMethods

\* _update_sensor: with a sensor registered it calls update_tasks on it
_update_sensor_raises(m) == m.sensor /\ "update_tasks" \notin SensorMethods

(* ---------------- _setup_state_listener ---------------- *)
\* state_change_listener: does the observed transition cancel the task?
\* mutant: the listener does not look for a missing old or new state
should_cancel_unguarded(scheduled_action, old_state, new_state) ==
    IF scheduled_action = ACTION_ON /\ new_state = STATE_ON THEN TRUE
    ELSE IF scheduled_action = ACTION_OFF /\ new_state = STATE_OFF THEN TRUE
    ELSE IF scheduled_action = ACTION_TOGGLE THEN new_state # old_state
    ELSE FALSE

should_cancel(scheduled_action, old_state, new_state) ==
    IF new_state = NoState \/ old_state = NoState THEN FALSE
    ELSE IF scheduled_action = ACTION_ON /\ new_state = STATE_ON THEN TRUE
    ELSE IF scheduled_action = ACTION_OFF /\ new_state = STATE_OFF THEN TRUE
    ELSE IF scheduled_action = ACTION_TOGGLE THEN new_state # old_state
    ELSE FALSE

\* mutant: every task gets a listener
listens_always(run_now) == TRUE

\* "if not run_now": the tasks that get a state-change listener
listens(run_now) == ~run_now

\* the existing subscription is removed, the new one replaces it
_setup_state_listener(m, k, scheduled_action) ==
    [m EXCEPT !.lst = Put(m.lst, k, scheduled_action)]

\* get_reverse_action
get_reverse_action(action) ==
    IF action = ACTION_ON THEN ACTION_OFF
    ELSE IF action = ACTION_OFF THEN ACTION_ON
    ELSE ACTION_TOGGLE

(* ---------------- async_add_task as called by async_schedule_action ---- *)
AddTaskParams == {"task_id", "scheduled_time", "end_time", "delay_seconds",
                  "start_actions", "finish_actions", "notify", "notify_ha",
                  "notify_mobile", "notify_devices", "at_time", "time_mode",
                  "task_label"}
AddTaskRequired == {"task_id", "scheduled_time", "end_time", "delay_seconds"}
ScheduleKwargs == {"entity_id", "action", "scheduled_time", "end_time",
                   "delay_seconds", "notify", "notify_ha", "notify_mobile",
                   "run_now", "original_action", "at_time", "time_mode"}

\* mutant: async_add_task takes whatever keywords it is called with
async_add_task_binds_any(kwargs) == TRUE

\* binding the keyword arguments of a call to the parameters of
\* async_add_task; a call that does not bind raises TypeError
async_add_task_binds(kwargs) ==
    kwargs \subseteq AddTaskParams /\ AddTaskRequired \subseteq kwargs

(* ---------------- the coroutines ---------------- *)
RECURSIVE CancelReturn(_, _, _), UnloadLoop(_, _), RestoreLoop(_, _)

\* mutant: the callback goes on without invoking the Action Executor
execute_action_without_call(m, p) == Out(m, [p EXCEPT !.pc = "e_exec"])

\* execute_action (the timer callback) up to the await of _execute_action
execute_action(m, p) ==
    Out(Settle(Log(m, "execute", p.key, p.action, p.tid), p.key),
        [p EXCEPT !.pc = "e_exec"])

\* mutant: text that is no time is read as the first instant
parse_datetime_lenient(s) == IF s >= 1 THEN s ELSE 1

\* parse_datetime of a stored time string
parse_datetime(s) == IF s >= 1 THEN s ELSE NoneTime

\* the time async_restore_tasks reads from a record
RestoreTime(task) ==
    LET end_time_str == IF task.end_time # NoTimeField THEN task.end_time
                        ELSE task.scheduled_time
    IN IF end_time_str # NoTimeField THEN parse_datetime(end_time_str) ELSE NoneTime

\* mutant: a record that is due exactly now is re-armed
is_overdue_strict(scheduled_time, now) == scheduled_time < now

\* async_restore_tasks: a record whose time has come is executed at once
is_overdue(scheduled_time, now) == scheduled_time <= now

\* async_restore_tasks: the loop over the snapshot, from the record at the
\* head of p.todo up to the next await
RestoreLoop(m, p) ==
    IF p.todo = << >> THEN Out(m, Finish(p, "ok"))
    ELSE
      LET k == Head(p.todo)
          task == p.snap[k]
          scheduled_time == RestoreTime(task)
          cb == _create_action_callback(k, task.action, task.notify, FALSE, FALSE)
          tid == Len(m.timers) + 1
          pk == [p EXCEPT !.key = k, !.action = task.action, !.tid = tid,
                          !.nflag = cb.nflag]
      IN IF scheduled_time = NoneTime
         THEN IF remove_suspends(m, k)
              THEN Out(async_remove_task(m, k), [p EXCEPT !.key = k, !.pc = "r_rm"])
              ELSE RestoreLoop(m, [p EXCEPT !.todo = Tail(p.todo)])
         ELSE IF is_overdue(scheduled_time, p.now)
         THEN execute_action(
                 [m EXCEPT !.timers = Append(m.timers, Timer(cb, scheduled_time, "replay"))],
                 pk)
         ELSE LET m1 == [m EXCEPT !.timers = Append(m.timers, Timer(cb, scheduled_time, "armed")),
                                  !.sched = Put(m.sched, k, tid)]
                  m2 == IF listens(task.run_now)
                        THEN _setup_state_listener(m1, k, task.action) ELSE m1
              IN RestoreLoop(m2, [p EXCEPT !.todo = Tail(p.todo)])

\* the end of execute_action: back to the caller
ExecReturn(m, p) ==
    IF p.kind = "restore" THEN RestoreLoop(m, [p EXCEPT !.todo = Tail(p.todo)])
    ELSE Out(m, Finish(p, "ok"))

\* mutant: execute_action returns without _cleanup_task
ExecCleanup_skipped(m, p) == ExecReturn(m, p)

\* execute_action: the final _cleanup_task up to its await
ExecCleanup(m, p) ==
    IF remove_suspends(m, p.key)
    THEN Out(CleanupSync(m, p.key), [p EXCEPT !.pc = "e_save"])
    ELSE ExecReturn(CleanupSync(m, p.key), p)

\* execute_action after _execute_action returned; ok is the service call's outcome
ExecAfterCall(m, p, ok) ==
    LET m0 == IF ok THEN m ELSE Log(m, "log_error", p.key, p.action, p.tid)
    IN IF ~_execute_action_raises(ok)
       THEN LET m1 == Log(m0, "task_completed", p.key, p.action, p.tid)
            IN IF p.nflag THEN Out(m1, [p EXCEPT !.pc = "e_notify"])
               ELSE ExecCleanup(m1, p)
       ELSE IF p.nflag THEN Out(m0, [p EXCEPT !.pc = "e_notify"])
            ELSE ExecCleanup(m0, p)

\* the guard of async_cancel_action
CancelFinds(m, k) == k \in DOMAIN m.sched \/ has_task(m, k)

\* async_cancel_action after _cleanup_task: the event and the notification
CancelAfterCleanup(m, p) ==
    LET m1 == Settle(Log(m, "task_cancelled", p.key, p.reason, p.tid), p.key)
    IN IF ~p.silent /\ p.found /\ p.tnotify
       THEN Out(m1, [p EXCEPT !.pc = "c_notify"])
       ELSE CancelReturn(m1, p, TRUE)

\* async_cancel_action from its entry up to the first await
async_cancel_action(m, p) ==
    LET k == p.key IN
    IF ~CancelFinds(m, k) THEN CancelReturn(m, [p EXCEPT !.tid = 0], FALSE)
    ELSE
      LET tid == IF k \in DOMAIN m.sched THEN m.sched[k] ELSE 0
          m1 == IF tid # 0 THEN [m EXCEPT !.timers = CancelHandle(m.timers, tid)] ELSE m
          p1 == [p EXCEPT !.tid = tid, !.found = has_task(m, k),
                          !.tnotify = IF has_task(m, k) THEN m.data[k].notify ELSE FALSE]
      IN IF remove_suspends(m1, k)
         THEN Out(CleanupSync(m1, k), [p1 EXCEPT !.pc = "c_save"])
         ELSE CancelAfterCleanup(CleanupSync(m1, k), p1)

\* mutant: the sweep cancels like a user's call, not silently
UnloadLoop_notifies(m, p) ==
    IF p.todo = << >> THEN Out(m, Finish(p, "ok"))
    ELSE async_cancel_action(m, [p EXCEPT !.key = Head(p.todo), !.silent = FALSE,
                                          !.reason = "user_request"])

\* async_unload_entry: the sweep over the snapshot of handle keys
UnloadLoop(m, p) ==
    IF p.todo = << >> THEN Out(m, Finish(p, "ok"))
    ELSE async_cancel_action(m, [p EXCEPT !.key = Head(p.todo), !.silent = TRUE,
                                          !.reason = "user_request"])

\* async_schedule_action: the task record is stored
ScheduleStore(m, p) ==
    LET actual_action == IF p.run_now THEN get_reverse_action(p.action) ELSE p.action
        task == [action |-> actual_action, end_time |-> p.end, scheduled_time |-> p.now,
                 run_now |-> p.run_now, notify |-> p.notify, notify_ha |-> p.nflag]
    IN IF ~async_add_task_binds(ScheduleKwargs) THEN Out(m, Finish(p, "TypeError"))
       ELSE Out([m EXCEPT !.data = Put(m.data, p.key, task)], [p EXCEPT !.pc = "s_add"])

\* mutant: hours are converted like minutes
convert_to_seconds_no_hours(delay, unit) ==
    IF unit = UNIT_SECONDS THEN delay ELSE delay * 60

\* convert_to_seconds
convert_to_seconds(delay, unit) ==
    IF unit = UNIT_SECONDS THEN delay
    ELSE IF unit = UNIT_HOURS THEN delay * 3600
    ELSE delay * 60

\* hours, minutes = map(int, at_time.split(':')) and now.replace(hour=hours,
\* minute=minutes, ...) go through without ValueError
at_time_parses(at_time) ==
    /\ Len(at_time) = 2
    /\ at_time[1] \in 0..23
    /\ at_time[2] \in 0..59

\* now.replace(hour=hours, minute=minutes, second=0, microsecond=0)
replace_time(now, hours, minutes) == (now - (now % Day)) + hours * 3600 + minutes * 60

\* mutant: a time equal to now stays today
absolute_time_keeps_now(now, at_time) ==
    LET scheduled_time == replace_time(now, at_time[1], at_time[2])
    IN IF scheduled_time < now THEN scheduled_time + Day ELSE scheduled_time

\* the scheduled_time of absolute mode: today at that time, tomorrow when
\* that is not after now
absolute_time(now, at_time) ==
    LET scheduled_time == replace_time(now, at_time[1], at_time[2])
    IN IF scheduled_time <= now THEN scheduled_time + Day ELSE scheduled_time

\* async_schedule_action after the silent cancel: the time, the immediate leg
ScheduleAfterCancel(m, p) ==
    LET now == m.now
        absolute == p.time_mode = TIME_MODE_ABSOLUTE /\ p.at_time # NoAtTime
    IN IF absolute /\ ~at_time_parses(p.at_time)
       THEN Out(m, Finish([p EXCEPT !.now = now], "aborted"))
       ELSE LET scheduled_time == IF absolute THEN absolute_time(now, p.at_time)
                                  ELSE now + convert_to_seconds(p.delay, p.unit)
                delay_seconds == IF absolute THEN scheduled_time - now
                                 ELSE convert_to_seconds(p.delay, p.unit)
                p1 == [p EXCEPT !.now = now, !.end = scheduled_time,
                                !.delay_seconds = delay_seconds]
            IN IF p.run_now
               THEN Out(Log(m, "execute_now", p.key, p.action, 0), [p1 EXCEPT !.pc = "s_exec"])
               ELSE ScheduleStore(m, p1)

\* async_schedule_action: the history entry of the call
ScheduleHistoryEntry(p) ==
    IF p.time_mode = TIME_MODE_ABSOLUTE
    THEN HistoryEntry(p.action, p.time_mode, 0, "", p.at_time, << >>, << >>, p.now)
    ELSE HistoryEntry(p.action, p.time_mode, p.delay, p.unit, NoAtTime, << >>, << >>, p.now)

\* async_schedule_action: the last-used parameters of the call
ScheduleLastUsed(p) ==
    [last_action |-> p.action, last_time_mode |-> p.time_mode, last_delay |-> p.delay,
     last_unit |-> p.unit, last_at_time |-> p.at_time, notify_ha |-> p.nflag]

\* async_schedule_action after the preference writes: timer, listener, event
ScheduleArm(m, p) ==
    LET actual_action == IF p.run_now THEN get_reverse_action(p.action) ELSE p.action
        cb == _create_action_callback(p.key, actual_action, p.notify, p.nflag, FALSE)
        tid == Len(m.timers) + 1
        m1 == [m EXCEPT !.timers = Append(m.timers, Timer(cb, p.end, "armed")),
                        !.sched = Put(m.sched, p.key, tid)]
        m2 == IF listens(p.run_now)
              THEN _setup_state_listener(m1, p.key, actual_action) ELSE m1
        m3 == Log(m2, "task_started", p.key, actual_action, tid)
    IN IF _update_preferences_sensor_raises(m) THEN Out(m, Finish(p, "AttributeError"))
       ELSE IF p.nflag THEN Out(m3, [p EXCEPT !.tid = tid, !.pc = "s_notify"])
       ELSE Out(m3, Finish([p EXCEPT !.tid = tid], "ok"))

\* the return of async_cancel_action to whoever awaited it
CancelReturn(m, p, val) ==
    LET p1 == [p EXCEPT !.rets = Append(p.rets, <<p.key, val, p.tid>>)]
    IN IF p.kind = "unload" THEN UnloadLoop(m, [p1 EXCEPT !.todo = Tail(p.todo)])
       ELSE IF p.kind = "schedule" THEN ScheduleAfterCancel(m, [p1 EXCEPT !.tid = 0])
       ELSE Out(m, Finish(p1, IF val THEN "true" ELSE "false"))

(* ---------------- the initial durable image ---------------- *)
StoredVersions == {STORAGE_VERSION - 1, STORAGE_VERSION}

\* a stored task record; the calls of the model give notify and notify_ha the
\* same value, so the two fields of a record agree
Task(action, end_time, scheduled_time, run_now, notify) ==
    [action |-> action, end_time |-> end_time, scheduled_time |-> scheduled_time,
     run_now |-> run_now, notify |-> notify, notify_ha |-> notify]

\* the records a previous run may have left under key k
TaskShapes(k) ==
    IF k = "light.a"
    THEN {Task(a, e, 1, FALSE, FALSE) : a \in Actions, e \in 1..MaxTime}
         \cup {Task(ACTION_OFF, e, 1, FALSE, TRUE) : e \in 1..MaxTime}
         \cup {Task(ACTION_ON, e, 1, TRUE, TRUE) : e \in 1..MaxTime}
         \cup {Task(ACTION_ON, GarbageTime, 1, FALSE, FALSE),
               Task(ACTION_ON, NoTimeField, GarbageTime, FALSE, FALSE),
               Task(ACTION_ON, NoTimeField, 1, FALSE, FALSE)}
    ELSE {Task(ACTION_TOGGLE, e, 1, FALSE, FALSE) : e \in 1..MaxTime}

\* the records of "light.a" that the images pair with a record of "switch.b"
Companions == {Task(ACTION_OFF, e, 1, FALSE, TRUE) : e \in 1..MaxTime}
              \cup {Task(ACTION_ON, GarbageTime, 1, FALSE, FALSE)}

DiskImages ==
    UNION {{d \in [ks -> UNION {TaskShapes(k) : k \in ks}] :
               /\ \A k \in ks : d[k] \in TaskShapes(k)
               /\ ks = Keys => d["light.a"] \in Companions} : ks \in SUBSET Keys}

\* the orders in which a dictionary with the keys ks is iterated
Orders(ks) == {o \in UNION {[1..n -> ks] : n \in {Cardinality(ks)}} :
                  \A i, j \in 1..Len(o) : i # j => o[i] # o[j]}

Init ==
    /\ disk \in DiskImages
    /\ diskVersion \in StoredVersions
    /\ data = EmptyDict
    /\ scheduled_tasks = EmptyDict
    /\ state_listeners = EmptyDict
    /\ timers = << >>
    /\ bus = [k \in Keys |-> NoBus]
    /\ procs = << >>
    /\ returned = << >>
    /\ clock = 1
    /\ phase = "boot"
    /\ calls = 0
    /\ changes = 0
    /\ restarts = 0
    /\ boot = [snap |-> EmptyDict, now |-> 0]
    /\ prefs = EmptyDict
    /\ sensor = FALSE
    /\ handed = << >>
    /\ owed = [persisted |-> DOMAIN disk, loaded |-> {}]

(* ---------------- the steps of the event loop ---------------- *)
RemoveAt(ps, i) == [j \in 1..(Len(ps) - 1) |-> IF j < i THEN ps[j] ELSE ps[j + 1]]

\* the state after coroutine i of ps ran up to its next await, or returned
Commit(r, ps, i) ==
    /\ data' = r.m.data
    /\ disk' = r.m.disk
    /\ diskVersion' = r.m.diskVersion
    /\ scheduled_tasks' = r.m.sched
    /\ state_listeners' = r.m.lst
    /\ timers' = r.m.timers
    /\ bus' = r.m.bus
    /\ owed' = r.m.owed
    /\ prefs' = r.m.prefs
    /\ sensor' = r.m.sensor
    /\ handed' = handed
    /\ procs' = IF r.p.pc = "done" THEN RemoveAt(ps, i) ELSE [ps EXCEPT ![i] = r.p]
    /\ returned' = IF r.p.pc = "done" /\ r.p.kind \in {"cancel", "schedule", "unload"}
                   THEN Append(returned, r.p) ELSE returned
    /\ phase' = IF r.p.kind # "restore" THEN phase
                ELSE IF r.p.pc = "done" THEN "up" ELSE "restoring"

\* the services are registered once async_restore_tasks has returned
Running == phase = "up"

\* the environment may still act: a service call, a state change, a restart
MayAct == calls + changes + restarts < MaxOps

\* async_setup: both stores are loaded, then async_restore_tasks runs up to
\* its first await
Setup ==
    /\ phase = "boot"
    /\ LET loaded == async_load(diskVersion, disk)
           m == [Machine EXCEPT !.data = loaded,
                                !.owed.loaded = owed.loaded \cup
                                                   {k \in DOMAIN loaded :
                                                      RestoreTime(loaded[k]) # NoneTime}]
       IN \E o \in Orders(DOMAIN loaded) :
            LET p == [NewProc("restore", "none") EXCEPT
                         !.pc = "r_start", !.snap = loaded, !.now = clock, !.todo = o]
            IN Commit(RestoreLoop(m, p), <<p>>, 1)
    /\ boot' = [snap |-> async_load(diskVersion, disk), now |-> clock]
    /\ UNCHANGED <<clock, calls, changes, restarts>>

\* the clock advances
Tick ==
    /\ clock < MaxTime
    /\ clock' = clock + 1
    /\ UNCHANGED <<data, disk, diskVersion, scheduled_tasks, state_listeners, timers,
                   bus, procs, returned, phase, calls, changes, restarts, boot, prefs,
                   sensor, handed, owed>>

\* an armed timer reaches its point in time: its callback runs as a task, up
\* to its first await. A task already created by a listener is ahead of the
\* timer in the loop's run queue, so it starts first.
TimerFire(tid) ==
    /\ timers[tid].st = "armed"
    /\ timers[tid].end <= clock
    /\ \A i \in 1..Len(procs) : procs[i].pc # "start"
    /\ LET p == [NewProc("exec", timers[tid].key) EXCEPT
                    !.action = timers[tid].action, !.tid = tid,
                    !.nflag = timers[tid].nflag]
           m == [Machine EXCEPT !.timers[tid].st = "fired"]
       IN Commit(execute_action(m, p), Append(procs, p), Len(procs) + 1)
    /\ UNCHANGED <<clock, calls, changes, restarts, boot>>

\* the task the listener created with hass.async_create_task starts running
Start(i) ==
    /\ procs[i].pc = "start"
    /\ LET k == procs[i].key
           p == [procs[i] EXCEPT !.began = Len(returned),
                                 !.pre = (k \in DOMAIN scheduled_tasks \/ k \in DOMAIN data)]
       IN Commit(async_cancel_action(Machine, p), procs, i)
    /\ UNCHANGED <<clock, calls, changes, restarts, boot>>

\* the entity k goes from old to new: the subscribed state_change_listener runs
StateChange(k, old, new) ==
    /\ MayAct
    /\ changes < MaxChanges
    /\ k \in DOMAIN state_listeners
    /\ procs' = IF should_cancel(state_listeners[k], old, new)
                THEN Append(procs, [NewProc("cancel", k) EXCEPT
                                       !.reason = "manual_state_change"])
                ELSE procs
    /\ changes' = changes + 1
    /\ UNCHANGED <<data, disk, diskVersion, scheduled_tasks, state_listeners, timers,
                   bus, returned, clock, phase, calls, restarts, boot, prefs,
                   sensor, handed, owed>>

\* a persistence write resolves and the coroutine that awaited it goes on
SaveDone(i) ==
    /\ procs[i].pc \in {"c_save", "e_save", "r_rm", "s_add", "s_hist", "s_pref"}
    /\ LET p == procs[i]
           r == CASE p.pc = "c_save" -> CancelAfterCleanup(async_save(Machine), p)
                  [] p.pc = "e_save" -> ExecReturn(async_save(Machine), p)
                  [] p.pc = "r_rm" -> RestoreLoop(async_save(Machine),
                                                  [p EXCEPT !.todo = Tail(p.todo)])
                  [] p.pc = "s_add" ->
                       Out(async_add_to_history(async_save(Machine), p.key,
                                                ScheduleHistoryEntry(p)),
                           [p EXCEPT !.pc = "s_hist"])
                  [] p.pc = "s_hist" ->
                       Out(async_set_preferences(Machine, p.key, ScheduleLastUsed(p)),
                           [p EXCEPT !.pc = "s_pref"])
                  [] p.pc = "s_pref" -> ScheduleArm(Machine, p)
       IN Commit(r, procs, i)
    /\ UNCHANGED <<clock, calls, changes, restarts, boot>>

\* hass.services.async_call of the Action Executor returns, ok or failed
ExecutorDone(i, ok) ==
    /\ procs[i].pc \in {"e_exec", "s_exec"}
    /\ LET p == procs[i]
           r == IF p.pc = "e_exec" THEN ExecAfterCall(Machine, p, ok)
                ELSE ScheduleStore(IF ok THEN Machine
                                   ELSE Log(Machine, "log_error", p.key, p.action, 0), p)
       IN Commit(r, procs, i)
    /\ UNCHANGED <<clock, calls, changes, restarts, boot>>

\* _send_notification returns
NotifyDone(i) ==
    /\ procs[i].pc \in {"c_notify", "e_notify", "s_notify"}
    /\ LET p == procs[i]
           r == CASE p.pc = "c_notify" -> CancelReturn(Machine, p, TRUE)
                  [] p.pc = "e_notify" -> ExecCleanup(Machine, p)
                  [] p.pc = "s_notify" -> Out(Machine, Finish(p, "ok"))
       IN Commit(r, procs, i)
    /\ UNCHANGED <<clock, calls, changes, restarts, boot>>

(* ---------------- service calls ---------------- *)
\* cancel_action: handle_cancel_action up to its first await
CallCancel(k) ==
    /\ Running
    /\ MayAct
    /\ calls < MaxCalls
    /\ LET p == [NewProc("cancel", k) EXCEPT
                    !.began = Len(returned),
                    !.pre = (k \in DOMAIN scheduled_tasks \/ k \in DOMAIN data)]
       IN Commit(async_cancel_action(Machine, p), Append(procs, p), Len(procs) + 1)
    /\ calls' = calls + 1
    /\ UNCHANGED <<clock, changes, restarts, boot>>

\* run_action: handle_run_action up to its first await
CallSchedule(k, action, run_now, time_mode, at_time, notify, delay, unit) ==
    /\ Running
    /\ MayAct
    /\ calls < MaxCalls
    /\ LET p == [NewProc("schedule", k) EXCEPT
                    !.action = action, !.run_now = run_now, !.time_mode = time_mode,
                    !.at_time = at_time, !.notify = notify, !.nflag = notify,
                    !.delay = delay, !.unit = unit,
                    !.silent = TRUE, !.began = Len(returned)]
       IN Commit(async_cancel_action(Machine, p), Append(procs, p), Len(procs) + 1)
    /\ calls' = calls + 1
    /\ UNCHANGED <<clock, changes, restarts, boot>>

\* async_unload_entry is called and awaits async_unload_platforms
CallUnload ==
    /\ Running
    /\ MayAct
    /\ calls < MaxCalls
    /\ procs' = Append(procs, [NewProc("unload", "none") EXCEPT
                                  !.pc = "u_platforms", !.began = Len(returned)])
    /\ calls' = calls + 1
    /\ UNCHANGED <<data, disk, diskVersion, scheduled_tasks, state_listeners, timers,
                   bus, returned, clock, phase, changes, restarts, boot, prefs,
                   sensor, handed, owed>>

\* async_unload_platforms returns unload_ok; the sweep starts when it is true
PlatformsUnloaded(i, unload_ok) ==
    /\ procs[i].pc = "u_platforms"
    /\ \E o \in Orders(DOMAIN scheduled_tasks) :
          Commit(IF unload_ok
                 THEN UnloadLoop([Machine EXCEPT !.sensor = FALSE], [procs[i] EXCEPT !.todo = o])
                 ELSE Out(Machine, Finish(procs[i], "not_unloaded")), procs, i)
    /\ UNCHANGED <<clock, calls, changes, restarts, boot>>

\* the process stops with no coroutine in flight and starts again: every
\* in-memory map and every timer of the old process is gone
Restart ==
    /\ phase = "up"
    /\ MayAct
    /\ restarts < MaxRestarts
    /\ procs = << >>
    /\ phase' = "boot"
    /\ restarts' = restarts + 1
    /\ data' = EmptyDict
    /\ scheduled_tasks' = EmptyDict
    /\ state_listeners' = EmptyDict
    /\ timers' = [t \in 1..Len(timers) |->
                    IF timers[t].st = "armed" THEN [timers[t] EXCEPT !.st = "lost"]
                    ELSE timers[t]]
    /\ sensor' = FALSE
    /\ UNCHANGED <<disk, diskVersion, bus, procs, returned, clock, calls, changes, boot,
                   prefs, handed, owed>>

\* the key the service calls of the model are made for
CallKeys == {"light.a"}

\* the run_action calls the model makes:
\* <<action, run_now, time_mode, at_time, notify, delay, unit>>
ScheduleInputs ==
    {<<ACTION_ON, FALSE, TIME_MODE_RELATIVE, NoAtTime, FALSE, 1, UNIT_SECONDS>>,
     <<ACTION_ON, TRUE, TIME_MODE_RELATIVE, NoAtTime, TRUE, 1, UNIT_SECONDS>>,
     <<"open_cover", TRUE, TIME_MODE_ABSOLUTE, <<0, 0>>, FALSE, 15, UNIT_MINUTES>>,
     <<ACTION_OFF, FALSE, TIME_MODE_ABSOLUTE, <<25, 0>>, FALSE, 15, UNIT_MINUTES>>}

Next ==
    \/ Setup
    \/ Tick
    \/ \E tid \in 1..Len(timers) : TimerFire(tid)
    \/ \E i \in 1..Len(procs) : Start(i)
    \/ \E k \in Keys, old \in StateValues, new \in StateValues : StateChange(k, old, new)
    \/ \E i \in 1..Len(procs) : SaveDone(i)
    \/ \E i \in 1..Len(procs), ok \in BOOLEAN : ExecutorDone(i, ok)
    \/ \E i \in 1..Len(procs) : NotifyDone(i)
    \/ \E k \in CallKeys : CallCancel(k)
    \/ \E k \in CallKeys, in \in ScheduleInputs :
          CallSchedule(k, in[1], in[2], in[3], in[4], in[5], in[6], in[7])
    \/ CallUnload
    \/ \E i \in 1..Len(procs), ok \in BOOLEAN : PlatformsUnloaded(i, ok)
    \/ Restart

Spec == Init /\ [][Next]_vars

\* a step of the event loop itself: startup, the clock, a due timer, a
\* coroutine that can go on
LoopStep ==
    \/ Setup
    \/ Tick
    \/ \E tid \in 1..Len(timers) : TimerFire(tid)
    \/ \E i \in 1..Len(procs) : Start(i)
    \/ \E i \in 1..Len(procs) : SaveDone(i)
    \/ \E i \in 1..Len(procs), ok \in BOOLEAN : ExecutorDone(i, ok)
    \/ \E i \in 1..Len(procs) : NotifyDone(i)
    \/ \E i \in 1..Len(procs), ok \in BOOLEAN : PlatformsUnloaded(i, ok)

\* the event loop does not stop while it has something to run; the user, the
\* entities and the restarts are under no obligation
\* the durable images of the runs checked for progress: no record, one
\* record, or an overdue record with a notification next to a second record
FairImages ==
    {d \in DiskImages :
        /\ "light.a" \in DOMAIN d => d["light.a"] \in Companions
        /\ DOMAIN d = Keys => /\ d["light.a"] = Task(ACTION_OFF, 1, 1, FALSE, TRUE)
                             /\ d["switch.b"].end_time = MaxTime}

FairInit == Init /\ disk \in FairImages

FairSpec == FairInit /\ [][Next]_vars /\ WF_vars(LoopStep)

(* ---------------- the time computation on its own ---------------- *)
\* the instants at which the calls are made: just after midnight, 09:00:00,
\* one second later, the last second of a day, 08:00:00 of the next day
Nows == {1, 9 * 3600, 9 * 3600 + 1, Day - 1, Day + 8 * 3600}

Delays == {1, 2, 59, 60, MaxDelay}

AtTimes == {<<0, 0>>, <<8, 0>>, <<9, 0>>, <<9, 1>>, <<23, 59>>}

\* run_action calls with every unit and with times of day around now
TimeInputs ==
    {<<ACTION_OFF, FALSE, TIME_MODE_RELATIVE, NoAtTime, FALSE, d, u>> :
        d \in Delays, u \in Units}
    \cup {<<ACTION_OFF, FALSE, TIME_MODE_ABSOLUTE, at, FALSE, 15, UNIT_MINUTES>> :
             at \in AtTimes}

\* the integration is up with nothing stored, at one of the instants
TimeInit ==
    /\ disk = EmptyDict
    /\ diskVersion = STORAGE_VERSION
    /\ data = EmptyDict
    /\ scheduled_tasks = EmptyDict
    /\ state_listeners = EmptyDict
    /\ timers = << >>
    /\ bus = [k \in Keys |-> NoBus]
    /\ procs = << >>
    /\ returned = << >>
    /\ clock \in Nows
    /\ phase = "up"
    /\ calls = 0
    /\ changes = 0
    /\ restarts = 0
    /\ boot = [snap |-> EmptyDict, now |-> 0]
    /\ prefs = EmptyDict
    /\ sensor = FALSE
    /\ handed = << >>
    /\ owed = [persisted |-> {}, loaded |-> {}]

TimeNext ==
    \E k \in CallKeys, in \in TimeInputs :
       CallSchedule(k, in[1], in[2], in[3], in[4], in[5], in[6], in[7])

TimeSpec == TimeInit /\ [][TimeNext]_vars

(* ---------------- the preference store on its own ---------------- *)
\* set_preferences: handle_set_preferences; the map is written before the
\* preference file is saved, then the preferences are pushed to the sensor
CallSetPreferences(k, preferences) ==
    /\ Running
    /\ calls < MaxPrefOps
    /\ prefs' = async_set_preferences(Machine, k, preferences).prefs
    /\ returned' = Append(returned,
                          Finish(NewProc("set_preferences", k),
                                 IF _update_preferences_sensor_raises(Machine)
                                 THEN "AttributeError" ELSE "ok"))
    /\ calls' = calls + 1
    /\ UNCHANGED <<data, disk, diskVersion, scheduled_tasks, state_listeners, timers,
                   bus, procs, clock, phase, changes, restarts, boot, sensor, handed, owed>>

\* QuickTimerPreferencesStore.async_add_to_history called on the store
CallAddToHistory(k, history_entry) ==
    /\ Running
    /\ calls < MaxPrefOps
    /\ prefs' = async_add_to_history(Machine, k, history_entry).prefs
    /\ calls' = calls + 1
    /\ UNCHANGED <<data, disk, diskVersion, scheduled_tasks, state_listeners, timers,
                   bus, procs, returned, clock, phase, changes, restarts, boot,
                   sensor, handed, owed>>

\* async_setup_entry: the sensor platform is set up and the sensor entity
\* registers itself with the coordinator in async_added_to_hass
SetupEntry ==
    /\ Running
    /\ ~sensor
    /\ sensor' = TRUE
    /\ UNCHANGED <<data, disk, diskVersion, scheduled_tasks, state_listeners, timers,
                   bus, procs, returned, clock, phase, calls, changes, restarts, boot,
                   prefs, handed, owed>>

\* a relative entry of the given delay in minutes, made at the given time
RelativeEntry(delay, timestamp) ==
    HistoryEntry(ACTION_ON, TIME_MODE_RELATIVE, delay, UNIT_MINUTES, NoAtTime,
                 << >>, << >>, timestamp)

\* four parameter sets, the first of them used at two times
PrefEntries == {RelativeEntry(d, 1) : d \in {5, 10, 15, 20}} \cup {RelativeEntry(5, 2)}

\* the preferences dictionaries of the set_preferences calls: no history (one
\* field, two fields), a history that repeats a parameter set, a history of
\* four entries
PrefPayloads ==
    {[last_action |-> ACTION_ON],
     [last_action |-> ACTION_OFF, notify_ha |-> TRUE],
     [history |-> <<RelativeEntry(5, 1), RelativeEntry(5, 2)>>],
     [history |-> <<RelativeEntry(5, 1), RelativeEntry(10, 1), RelativeEntry(15, 1),
                    RelativeEntry(20, 1)>>]}

\* the integration is up with nothing stored and no preferences
PrefInit == TimeInit /\ clock = 1

PrefNext ==
    \/ \E k \in CallKeys, in \in {i \in ScheduleInputs : ~i[2]} :
          CallSchedule(k, in[1], in[2], in[3], in[4], in[5], in[6], in[7])
    \/ SetupEntry
    \/ \E k \in Keys, preferences \in PrefPayloads : CallSetPreferences(k, preferences)
    \/ \E k \in Keys, history_entry \in PrefEntries : CallAddToHistory(k, history_entry)

PrefSpec == PrefInit /\ [][PrefNext]_vars

(* ---------------- the task store on its own ---------------- *)
\* the write of Store.async_save: the writes go one after the other in the
\* order of the calls; each hands the live map to the writer, which
\* serialises it at some moment before the call returns
Saving(p) == p.pc \in {"a_save", "a_written"}

\* QuickTimerStore.async_add_task is called and suspends in async_save
StoreAdd(k, end_time, notify) ==
    /\ calls < MaxStoreOps
    /\ data' = async_add_task(Machine, k, clock, end_time, end_time - clock, notify).data
    /\ procs' = Append(procs, [NewProc("add", k) EXCEPT
                                  !.pc = "a_save", !.now = clock, !.end = end_time,
                                  !.delay_seconds = end_time - clock, !.notify = notify,
                                  !.pre = (k \in DOMAIN data), !.began = Len(returned)])
    /\ calls' = calls + 1
    /\ UNCHANGED <<disk, diskVersion, scheduled_tasks, state_listeners, timers, bus,
                   returned, clock, phase, changes, restarts, boot, prefs,
                   sensor, handed, owed>>

\* QuickTimerStore.async_remove_task is called: it suspends in async_save
\* when the key is stored and returns False at once when it is not
StoreRemove(k) ==
    /\ calls < MaxStoreOps
    /\ LET p == [NewProc("remove", k) EXCEPT !.pre = (k \in DOMAIN data),
                                              !.began = Len(returned)]
       IN /\ data' = async_remove_task(Machine, k).data
          /\ IF remove_suspends(Machine, k)
             THEN /\ procs' = Append(procs, [p EXCEPT !.pc = "a_save"])
                  /\ returned' = returned
             ELSE /\ procs' = procs
                  /\ returned' = Append(returned, Finish(p, "false"))
    /\ calls' = calls + 1
    /\ UNCHANGED <<disk, diskVersion, scheduled_tasks, state_listeners, timers, bus,
                   clock, phase, changes, restarts, boot, prefs,
                   sensor, handed, owed>>

\* the writer serialises the map of the oldest pending save and replaces the file
WriteData(i) ==
    /\ procs[i].pc = "a_save"
    /\ \A j \in 1..(i - 1) : ~Saving(procs[j])
    /\ disk' = async_save(Machine).disk
    /\ diskVersion' = async_save(Machine).diskVersion
    /\ procs' = [procs EXCEPT ![i].pc = "a_written"]
    /\ UNCHANGED <<data, scheduled_tasks, state_listeners, timers, bus, returned, clock,
                   phase, calls, changes, restarts, boot, prefs,
                   sensor, handed, owed>>

\* async_save resolves and the operation returns to its caller
StoreReturn(i) ==
    /\ procs[i].pc = "a_written"
    /\ returned' = Append(returned, Finish(procs[i], IF procs[i].kind = "remove"
                                                      THEN "true" ELSE "none"))
    /\ procs' = RemoveAt(procs, i)
    /\ UNCHANGED <<data, disk, diskVersion, scheduled_tasks, state_listeners, timers,
                   bus, clock, phase, calls, changes, restarts, boot, prefs,
                   sensor, handed, owed>>

StoreInit == TimeInit /\ clock = 1

StoreNext ==
    \/ \E k \in Keys, end_time \in 2..3, notify \in BOOLEAN : StoreAdd(k, end_time, notify)
    \/ \E k \in Keys : StoreRemove(k)
    \/ \E i \in 1..Len(procs) : WriteData(i)
    \/ \E i \in 1..Len(procs) : StoreReturn(i)

StoreSpec == StoreInit /\ [][StoreNext]_vars

(* ---------------- tasks and preferences together ---------------- *)
\* the preferences set while tasks are restored, cancelled and executed
LifePayloads ==
    {[last_action |-> ACTION_ON, history |-> <<RelativeEntry(5, 1)>>]}

\* set_preferences as one of the service calls of a run
LifeSetPreferences(k, preferences) ==
    /\ MayAct
    /\ calls < MaxCalls
    /\ CallSetPreferences(k, preferences)

LifeNext ==
    \/ Next
    \/ \E k \in Keys, preferences \in LifePayloads : LifeSetPreferences(k, preferences)

LifeSpec == FairInit /\ [][LifeNext]_vars

(* ---------------- the structures handed to callers ---------------- *)
MaxHandles == 2
MaxCopySets == 2

\* get_preferences with an entity_id: handle_get_preferences returns the record
CallGetPreferences(k) ==
    /\ Running
    /\ Len(handed) < MaxHandles
    /\ handed' = Append(handed, get_preferences(Machine, k))
    /\ UNCHANGED <<data, disk, diskVersion, scheduled_tasks, state_listeners, timers,
                   bus, procs, returned, clock, phase, calls, changes, restarts, boot,
                   prefs, sensor, owed>>

\* get_preferences without an entity_id: handle_get_preferences returns the map
CallGetAllPreferences ==
    /\ Running
    /\ Len(handed) < MaxHandles
    /\ handed' = Append(handed, get_all_preferences(Machine))
    /\ UNCHANGED <<data, disk, diskVersion, scheduled_tasks, state_listeners, timers,
                   bus, procs, returned, clock, phase, calls, changes, restarts, boot,
                   prefs, sensor, owed>>

\* the caller changes structure i at one nesting level, under key k when the
\* structure is the map; an object the structure shares with the store
\* changes in the store as well
CallerMutates(i, k, level) ==
    /\ level \in (IF handed[i].all THEN LevelsOfMap ELSE LevelsOfRecord)
    /\ handed[i].all \/ k = handed[i].key
    /\ handed' = [handed EXCEPT ![i].value =
                     IF handed[i].all THEN MutateMap(@, k, level) ELSE MutateRecord(@, level)]
    /\ handed'[i] # handed[i]
    /\ prefs' = IF level \notin handed[i].shared THEN prefs
                ELSE IF handed[i].all THEN MutateMap(prefs, k, level)
                ELSE MutateMap(prefs, k, level)
    /\ UNCHANGED <<data, disk, diskVersion, scheduled_tasks, state_listeners, timers,
                   bus, procs, returned, clock, phase, calls, changes, restarts, boot,
                   sensor, owed>>

\* the preferences set before the structures are handed out
CopyPayloads ==
    {[last_action |-> ACTION_ON],
     [last_action |-> ACTION_OFF, history |-> <<RelativeEntry(5, 1), RelativeEntry(10, 1)>>]}

CopyInit == TimeInit /\ clock = 1

CopyNext ==
    \/ \E k \in Keys, preferences \in CopyPayloads :
          calls < MaxCopySets /\ CallSetPreferences(k, preferences)
    \/ \E k \in Keys : CallGetPreferences(k)
    \/ CallGetAllPreferences
    \/ \E i \in 1..Len(handed), k \in Keys, level \in LevelsOfMap : CallerMutates(i, k, level)

CopySpec == CopyInit /\ [][CopyNext]_vars

(* ======================= the claims ======================= *)
Last(q) == q[Len(q)]
ArmedTimers(k) == {t \in 1..Len(timers) : timers[t].key = k /\ timers[t].st = "armed"}
ScheduleCalls == {i \in 1..Len(procs) : procs[i].kind = "schedule"}

\* the step in which a call of the given kind returns
Returns(kind) ==
    /\ Len(returned') = Len(returned) + 1
    /\ Last(returned').kind = kind

\* the action a schedule call q asks the timer to perform
EffectiveAction(q) == IF q.run_now THEN get_reverse_action(q.action) ELSE q.action

\* C1: when a schedule call for K that came after an earlier schedule call for
\* K had returned ends (its time being well-formed), the Task Store holds one
\* record for K with this call's effective action and run_now flag, and
\* exactly one timer is armed for K, the one in the handle map, with that action.
C1_SecondScheduleWins ==
    [][(/\ Returns("schedule")
        /\ Last(returned').res # "aborted"
        /\ \E i \in 1..Last(returned').began :
              /\ returned[i].kind = "schedule"
              /\ returned[i].key = Last(returned').key)
       => LET q == Last(returned')
              k == q.key
          IN /\ k \in DOMAIN data'
             /\ data'[k].action = EffectiveAction(q)
             /\ data'[k].run_now = q.run_now
             /\ data'[k].end_time = q.end
             /\ k \in DOMAIN scheduled_tasks'
             /\ {t \in 1..Len(timers') : timers'[t].key = k /\ timers'[t].st = "armed"}
                   = {scheduled_tasks'[k]}
             /\ timers'[scheduled_tasks'[k]].action = EffectiveAction(q)]_vars

C3_ScheduleGuarantee ==
    [][(Returns("schedule") /\ Last(returned').res \in {"ok", "aborted"})
       => LET k == Last(returned').key
          IN /\ k \in DOMAIN data'
             /\ (Cardinality({t \in 1..Len(timers') :
                                timers'[t].key = k /\ timers'[t].st = "armed"}) = 1)
                  # (bus'[k].execute_now # << >>)]_vars

\* the restore in flight has not yet dealt with the record of k
PendingRestore(k) ==
    \E i \in 1..Len(procs) :
       /\ procs[i].kind = "restore"
       /\ \E j \in 1..Len(procs[i].todo) : procs[i].todo[j] = k
       /\ ~(procs[i].todo[1] = k /\ procs[i].pc \in {"r_rm", "e_save"})

LiveTimer(k) ==
    k \in DOMAIN scheduled_tasks /\ timers[scheduled_tasks[k]].st = "armed"

\* C4 as stated: a record for K is in the Task Store iff K has a live (armed)
\* timer handle or is pending restore-replay, and not both.
C4_RecordIffArmedXorPending ==
    \A k \in Keys : (k \in DOMAIN data) <=> (LiveTimer(k) # PendingRestore(k))

\* C4 amended: a record for K is in the Task Store iff the coordinator holds a
\* handle entry for K (its timer armed, or fired with the execution handler not
\* yet at its cleanup) or K is pending restore-replay, and not both.
C4_RecordIffHandleXorPending ==
    \A k \in Keys :
       (k \in DOMAIN data) <=> ((k \in DOMAIN scheduled_tasks) # PendingRestore(k))

\* a record whose timer has fired and whose handler is suspended in the executor
C4_Witness ==
    \E k \in Keys :
       /\ k \in DOMAIN data
       /\ k \in DOMAIN scheduled_tasks
       /\ timers[scheduled_tasks[k]].st = "fired"

CancelCalls == {j \in 1..Len(returned) : returned[j].kind = "cancel"}

\* C5: a cancel call returns true exactly when a handle or a record existed
\* for its key when it was called; when it returns true neither exists; a
\* cancel called right after one that returned true returns false, and a call
\* that returns false raised nothing, changed no state and emitted no event.
C5_CancelIdempotent ==
    /\ [](\A j \in CancelCalls :
             /\ returned[j].res \in {"true", "false"}
             /\ (returned[j].res = "true") <=> returned[j].pre
             /\ (/\ j > 1
                 /\ returned[j].began = j - 1
                 /\ returned[j - 1].kind = "cancel"
                 /\ returned[j - 1].key = returned[j].key
                 /\ returned[j - 1].res = "true") => returned[j].res = "false")
    /\ [][(Returns("cancel") /\ Last(returned').res = "true")
          => (/\ Last(returned').key \notin DOMAIN data'
              /\ Last(returned').key \notin DOMAIN scheduled_tasks')]_vars
    /\ [][(Returns("cancel") /\ Last(returned').res = "false")
          => UNCHANGED <<data, disk, diskVersion, scheduled_tasks, state_listeners,
                         timers, bus>>]_vars

\* the user cancelled a task and then cancelled it again
C5_Witness ==
    \E j \in CancelCalls :
       /\ j > 1
       /\ returned[j].began = j - 1
       /\ returned[j].reason = "user_request"
       /\ returned[j].res = "false"
       /\ returned[j - 1].kind = "cancel"
       /\ returned[j - 1].reason = "user_request"
       /\ returned[j - 1].key = returned[j].key
       /\ returned[j - 1].res = "true"

\* the returns of true for timer t among the returns q.rets of one coroutine
TrueRets(q, t) == {n \in 1..Len(q.rets) : q.rets[n][2] /\ q.rets[n][3] = t}

\* the cancel calls, finished or in flight, that returned true for timer t
TrueReturns(t) ==
    UNION {{<<"returned", j, n>> : n \in TrueRets(returned[j], t)} : j \in 1..Len(returned)}
    \cup UNION {{<<"procs", i, n>> : n \in TrueRets(procs[i], t)} : i \in 1..Len(procs)}

\* C6: of the cancel calls made for one task by the user, the listener and the
\* unload sweep, interleaved at their awaits, at most one returns true and at
\* most one task_cancelled event is emitted; a call returns true only with the
\* event emitted, and no event is emitted for a key that had no task.
C6_OneCancelWins ==
    /\ \A t \in 1..Len(timers) :
          /\ Len(timers[t].task_cancelled) <= 1
          /\ Cardinality(TrueReturns(t)) <= 1
          /\ \/ Cardinality(TrueReturns(t)) = Len(timers[t].task_cancelled)
             \/ \E i \in 1..Len(procs) :
                   /\ procs[i].tid = t
                   /\ procs[i].pc = "c_notify"
                   /\ Len(timers[t].task_cancelled) = 1
    /\ \A k \in Keys : bus[k].task_cancelled = << >>

\* the listener's cancel is suspended in its save while the user's cancel for
\* the same key has come and gone with false
C6_Witness ==
    \E i \in 1..Len(procs), j \in CancelCalls :
       /\ procs[i].kind = "cancel"
       /\ procs[i].reason = "manual_state_change"
       /\ procs[i].pc \in {"c_save", "c_notify"}
       /\ returned[j].reason = "user_request"
       /\ returned[j].key = procs[i].key
       /\ returned[j].res = "false"

\* the execution handler of timer t is in flight
Handling(t) ==
    \E i \in 1..Len(procs) :
       procs[i].tid = t /\ procs[i].pc \in {"e_exec", "e_notify", "e_save"}

\* C7: the Action Executor is invoked at most once for a timer, whether the
\* call succeeds or fails; a timer that fired is never armed again; once the
\* handler is through, no handle, listener or record is left for the key.
C7_FiresAtMostOnce ==
    \A t \in 1..Len(timers) :
       /\ Len(timers[t].execute) <= 1
       /\ Len(timers[t].log_error) <= Len(timers[t].execute)
       /\ timers[t].execute # << >> => timers[t].st \in {"fired", "replay"}
       /\ (timers[t].execute # << >> /\ ~Handling(t))
             => /\ timers[t].key \notin DOMAIN scheduled_tasks
                /\ timers[t].key \notin DOMAIN state_listeners
                /\ timers[t].key \notin DOMAIN data

\* a timer fired, the executor failed, and the handler is through
C7_Witness ==
    \E t \in 1..Len(timers) :
       /\ timers[t].st = "fired"
       /\ timers[t].log_error # << >>
       /\ ~Handling(t)

\* the records of the last startup whose end_time was at or before now
OverdueAtBoot == {k \in DOMAIN boot.snap : boot.snap[k].end_time \in 1..boot.now}

\* C8: when restore has finished, every record whose end_time was at or before
\* now has had the Action Executor invoked exactly once, with its action, and
\* no record, handle or listener is left for its key.
C8_OverdueReplayedOnce ==
    phase = "up" =>
       \A k \in OverdueAtBoot :
          /\ Cardinality({t \in 1..Len(timers) :
                            timers[t].key = k /\ timers[t].st = "replay"}) = 1
          /\ \A t \in 1..Len(timers) :
                (timers[t].key = k /\ timers[t].st = "replay")
                   => timers[t].execute = <<boot.snap[k].action>>
          /\ k \notin DOMAIN data
          /\ k \notin DOMAIN scheduled_tasks
          /\ k \notin DOMAIN state_listeners

\* restore has finished and the store held an overdue record
C8_Witness == phase = "up" /\ OverdueAtBoot # {}

StatedPolicy(a, old, new) ==
    \/ a = ACTION_ON /\ new = STATE_ON
    \/ a = ACTION_OFF /\ new = STATE_OFF
    \/ a = ACTION_TOGGLE /\ new # old

\* the listener of k, seeing old and new, created a cancel task
Requested(k) ==
    /\ Len(procs') = Len(procs) + 1
    /\ Last(procs').kind = "cancel"
    /\ Last(procs').key = k
    /\ Last(procs').reason = "manual_state_change"
    /\ Last(procs').pc = "start"

\* the cancel that starts on an armed timer takes the task away
ManualCancelEffect ==
    /\ [][\A i \in 1..Len(procs) :
            (/\ procs[i].pc = "start"
             /\ LiveTimer(procs[i].key)
             /\ Start(i))
            => /\ procs[i].key \notin DOMAIN data'
               /\ procs[i].key \notin DOMAIN scheduled_tasks'
               /\ timers'[scheduled_tasks[procs[i].key]].st = "cancelled"]_vars
    /\ [](\A t \in 1..Len(timers) :
             timers[t].st = "cancelled" => timers[t].execute = << >>)
    /\ [](\A j \in CancelCalls :
             (/\ returned[j].reason = "manual_state_change"
              /\ returned[j].res = "true"
              /\ returned[j].tid # 0)
             => timers[returned[j].tid].task_cancelled = <<"manual_state_change">>)

\* C10 as stated: the listener requests the cancel exactly when the stated
\* policy holds of (A, old_state, new_state), whatever the two states are.
C10_ListenerPolicy ==
    [][\A k \in Keys, old \in StateValues, new \in StateValues :
          StateChange(k, old, new)
             => (Requested(k) <=> StatedPolicy(state_listeners[k], old, new))]_vars

\* C10 amended: the listener requests the cancel exactly when both the old and
\* the new state are present and the stated policy holds; when that cancel
\* starts with the timer still armed, the record is removed, the timer never
\* fires, and task_cancelled with reason manual_state_change is emitted.
C10_ListenerPolicyPresent ==
    /\ [][\A k \in Keys, old \in StateValues, new \in StateValues :
             StateChange(k, old, new)
                => (Requested(k) <=> (/\ old # NoState
                                      /\ new # NoState
                                      /\ StatedPolicy(state_listeners[k], old, new)))]_vars
    /\ ManualCancelEffect

\* a listener's cancel took an armed timer away and emitted its event
C10_Witness ==
    \E j \in CancelCalls :
       /\ returned[j].reason = "manual_state_change"
       /\ returned[j].res = "true"
       /\ returned[j].tid # 0
       /\ timers[returned[j].tid].st = "cancelled"
       /\ timers[returned[j].tid].execute = << >>
       /\ timers[returned[j].tid].task_cancelled = <<"manual_state_change">>

\* the reverse C11 states for a requested action
StatedReverse(a) ==
    IF a = ACTION_ON THEN ACTION_OFF ELSE IF a = ACTION_OFF THEN ACTION_ON ELSE ACTION_TOGGLE

\* C11: when a schedule call with run_now set and a well-formed time ends, the
\* Action Executor has been invoked at once with the requested action, and the
\* record in the Task Store and the armed timer carry the reverse action.
C11_RunNowStoresReverse ==
    [][(/\ Returns("schedule")
        /\ Last(returned').run_now
        /\ Last(returned').res # "aborted")
       => LET q == Last(returned')
              k == q.key
          IN /\ \E n \in 1..Len(bus'[k].execute_now) : bus'[k].execute_now[n] = q.action
             /\ k \in DOMAIN data'
             /\ data'[k].action = StatedReverse(q.action)
             /\ data'[k].run_now
             /\ k \in DOMAIN scheduled_tasks'
             /\ timers'[scheduled_tasks'[k]].st = "armed"
             /\ timers'[scheduled_tasks'[k]].action = StatedReverse(q.action)]_vars

\* the schedule calls that have computed their times: returned or in flight
TimedCalls ==
    {returned[j] : j \in {j \in 1..Len(returned) :
                             returned[j].kind = "schedule" /\ returned[j].res # "aborted"}}
    \cup {procs[i] : i \in {i \in 1..Len(procs) :
                               procs[i].kind = "schedule" /\ procs[i].pc # "c_save"}}

\* the unit factors C12 states
StatedFactor(unit) ==
    IF unit = UNIT_SECONDS THEN 1 ELSE IF unit = UNIT_MINUTES THEN 60 ELSE 3600

\* C12: for a relative call with delay in 1..86400 and a unit of seconds,
\* minutes or hours, the end_time and scheduled_time that schedule computes
\* differ by exactly delay * unit_factor, and delay_seconds is that product.
C12_RelativeEndExact ==
    \A q \in TimedCalls :
       (/\ q.time_mode = TIME_MODE_RELATIVE
        /\ q.delay \in 1..MaxDelay
        /\ q.unit \in Units)
       => /\ q.end - q.now = q.delay * StatedFactor(q.unit)
          /\ q.delay_seconds = q.delay * StatedFactor(q.unit)

\* the largest delay in hours, and one in seconds, have been computed
C12_Witness ==
    /\ \E q \in TimedCalls :
          /\ q.time_mode = TIME_MODE_RELATIVE
          /\ q.unit = UNIT_HOURS
          /\ q.delay = MaxDelay
          /\ q.end = q.now + 311040000
    /\ \E q \in TimedCalls :
          /\ q.time_mode = TIME_MODE_RELATIVE
          /\ q.unit = UNIT_SECONDS
          /\ q.end = q.now + q.delay

\* the absolute calls whose at_time is a well-formed HH:MM
AbsoluteCalls ==
    {q \in TimedCalls :
        /\ q.time_mode = TIME_MODE_ABSOLUTE
        /\ Len(q.at_time) = 2
        /\ q.at_time[1] \in 0..23
        /\ q.at_time[2] \in 0..59}

\* HH:MM:00 of the day of the instant now
TodayAt(now, at_time) == (now \div Day) * Day + at_time[1] * 3600 + at_time[2] * 60

\* C13: in absolute mode with a well-formed HH:MM, end_time is today at
\* HH:MM:00 when that is strictly after now and one day later otherwise;
\* it is strictly after now and at most 24 hours ahead.
C13_AbsoluteRollsOver ==
    \A q \in AbsoluteCalls :
       /\ TodayAt(q.now, q.at_time) > q.now => q.end = TodayAt(q.now, q.at_time)
       /\ TodayAt(q.now, q.at_time) <= q.now => q.end = TodayAt(q.now, q.at_time) + Day
       /\ q.end > q.now
       /\ q.end <= q.now + Day

\* at 09:00:00 a call for 09:00 went to tomorrow, one for 09:01 stayed today
C13_Witness ==
    /\ \E q \in AbsoluteCalls :
          /\ TodayAt(q.now, q.at_time) = q.now
          /\ q.end = q.now + Day
    /\ \E q \in AbsoluteCalls :
          /\ TodayAt(q.now, q.at_time) > q.now
          /\ q.end = TodayAt(q.now, q.at_time)

\* a schedule call in absolute mode whose time string does not parse
Malformed(q) ==
    /\ q.kind = "schedule"
    /\ q.time_mode = TIME_MODE_ABSOLUTE
    /\ q.at_time # NoAtTime
    /\ ~(Len(q.at_time) = 2 /\ q.at_time[1] \in 0..23 /\ q.at_time[2] \in 0..59)

\* such a call is made in this step: it is now in flight or has returned
MalformedCallMade ==
    /\ calls' = calls + 1
    /\ \/ Len(procs') = Len(procs) + 1 /\ Malformed(Last(procs'))
       \/ Len(returned') = Len(returned) + 1 /\ Malformed(Last(returned'))

\* such a call returns in this step
MalformedCallReturns ==
    Len(returned') = Len(returned) + 1 /\ Malformed(Last(returned'))

\* C14: a schedule call in absolute mode with a malformed time string aborts
\* with no state change: from the call to its return the Task Store, the timer
\* handles, the timers and the listeners stay as they were, a task already
\* active for the key included, and no event is emitted.
C14_MalformedChangesNothing ==
    [][(MalformedCallMade \/ MalformedCallReturns)
       => (/\ MalformedCallReturns => Last(returned').res = "aborted"
           /\ UNCHANGED <<data, disk, diskVersion, scheduled_tasks, state_listeners,
                          timers, bus>>)]_vars

\* the timer of key k has fired and its handler is in flight
Fired(k) ==
    \E t \in 1..Len(timers) :
       timers[t].key = k /\ timers[t].st = "fired" /\ Handling(t)

\* the handler of a fired timer of key k is through: the event is out and the
\* record is gone
Completed(k) ==
    /\ k \notin DOMAIN data
    /\ \E t \in 1..Len(timers) :
          /\ timers[t].key = k
          /\ timers[t].st = "fired"
          /\ ~Handling(t)
          /\ timers[t].task_completed = <<timers[t].action>>

\* C15: the timer of a task carries the task's key and action; when it fires,
\* the Action Executor is invoked once with that key and action, then
\* task_completed is emitted for them and the record leaves the Task Store.
C15_FireExecutesAndCompletes ==
    /\ [](\A k \in DOMAIN data :
             k \in DOMAIN scheduled_tasks
                => /\ timers[scheduled_tasks[k]].key = k
                   /\ timers[scheduled_tasks[k]].action = data[k].action)
    /\ [](\A t \in 1..Len(timers) :
             /\ timers[t].st = "fired" => timers[t].execute = <<timers[t].action>>
             /\ Len(timers[t].task_completed) <= Len(timers[t].execute)
             /\ timers[t].task_completed # << >>
                   => timers[t].task_completed = <<timers[t].action>>)
    /\ \A k \in Keys : Fired(k) ~> Completed(k)

\* a task that nobody cancelled fired, was executed and completed
C15_Witness ==
    \E k \in Keys :
       /\ Completed(k)
       /\ \A t \in 1..Len(timers) : timers[t].key = k => timers[t].task_cancelled = << >>

\* C16: task_completed is emitted only when the Action Executor invocation
\* succeeded: a timer whose invocation failed has no task_completed event.
C16_NoCompletedOnFailure ==
    \A t \in 1..Len(timers) :
       timers[t].log_error # << >> => timers[t].task_completed = << >>

\* C17: after any sequence of schedule, add_to_history and set_preferences
\* operations every key's history has at most 3 entries, and no two of its
\* entries have the same composite key.
HistoryOf(k) ==
    IF k \in DOMAIN prefs /\ "history" \in DOMAIN prefs[k] THEN prefs[k].history ELSE << >>
C17_HistoryBoundedAndDistinct ==
    \A k \in Keys :
       /\ Len(HistoryOf(k)) <= 3
       /\ \A i, j \in 1..Len(HistoryOf(k)) :
             i # j => entry_key(HistoryOf(k)[i]) # entry_key(HistoryOf(k)[j])

\* the step in which async_setup loads a durable image of an older version
LoadsOlderVersion == phase = "boot" /\ phase' # "boot" /\ diskVersion < STORAGE_VERSION

\* C18: on load, stored task data of an older version is discarded: the load
\* proceeds with an empty task map and startup completes, with no timer armed
\* and no record restored.
C18_OlderVersionDiscarded ==
    [][LoadsOlderVersion =>
          /\ boot'.snap = EmptyDict
          /\ data' = EmptyDict
          /\ scheduled_tasks' = EmptyDict
          /\ timers' = timers
          /\ phase' = "up"]_vars
\* a durable image of an older version with records in it has been loaded
C18_Witness ==
    /\ phase = "up"
    /\ boot.now >= 1
    /\ diskVersion < STORAGE_VERSION
    /\ disk # EmptyDict
    /\ data = EmptyDict

\* C19: on load, stored task data of an older version is kept: every stored
\* key is in the loaded map.
C19_OlderVersionKept ==
    [][LoadsOlderVersion => DOMAIN boot'.snap = DOMAIN disk]_vars

\* the step in which async_add_task or async_remove_task returns after its save
MutationReturns ==
    /\ Len(returned') = Len(returned) + 1
    /\ Last(returned').kind \in {"add", "remove"}
    /\ Last(returned').res # "false"
\* the step in which async_add_task writes its record
AddWrites ==
    /\ Len(procs') = Len(procs) + 1
    /\ Last(procs').kind = "add"

\* C20 as stated: at the return of every mutating operation of the Task Store
\* the durable image equals the in-memory map.
C20_DurableEqualsMemoryAtReturn ==
    [][MutationReturns => disk' = data']_vars

\* the durable image and the in-memory map agree on key k
AgreeOn(k, image, map) ==
    /\ k \in DOMAIN image <=> k \in DOMAIN map
    /\ k \in DOMAIN image => image[k] = map[k]

\* C20: add is an upsert (the record under the key is the new one, the other
\* keys are untouched); when add or remove returns after its save, the durable
\* image is a full map of the current version that agrees with the in-memory
\* map on the operation's key unless another operation on that key is in
\* flight, and equals the in-memory map when no other mutating operation is
\* in flight.
C20_UpsertAndPersistedBeforeReturn ==
    [][/\ AddWrites =>
            LET q == Last(procs')
            IN /\ DOMAIN data' = (DOMAIN data) \cup {q.key}
               /\ data'[q.key].end_time = q.end
               /\ data'[q.key].notify = q.notify
               /\ \A x \in (DOMAIN data) \ {q.key} : data'[x] = data[x]
       /\ MutationReturns =>
            /\ diskVersion' = STORAGE_VERSION
            /\ (\A j \in 1..Len(procs') : procs'[j].key # Last(returned').key)
                  => AgreeOn(Last(returned').key, disk', data')
            /\ procs' = << >> => disk' = data']_vars
\* an add over a stored record has returned last, after two operations that
\* were in flight together
C20_Witness ==
    /\ procs = << >>
    /\ Len(returned) = 3
    /\ returned[3].kind = "add" /\ returned[3].pre
    /\ returned[1].kind = "add" /\ returned[2].began = 0
    /\ disk = data

\* the record of key k in a preference map, empty when there is none
RecordOf(map, k) == IF k \in DOMAIN map THEN map[k] ELSE EmptyDict
\* the sequence short is the first n entries of long, or all of long
FirstOf(short, long, n) ==
    /\ Len(short) = (IF Len(long) < n THEN Len(long) ELSE n)
    /\ \A i \in 1..Len(short) : short[i] = long[i]

\* C21: set_preferences(key, P) is a shallow merge: every field of P has P's
\* value, every field absent from P keeps its previous value, no other key is
\* touched, and the record's history, if present, is the first three entries
\* of the history the merge produced.
C21_SetPreferencesMerges ==
    [][\A k \in Keys, P \in PrefPayloads :
          CallSetPreferences(k, P) =>
             LET old == RecordOf(prefs, k)
                 new == RecordOf(prefs', k)
             IN /\ k \in DOMAIN prefs'
                /\ DOMAIN new = (DOMAIN old) \cup (DOMAIN P)
                /\ \A f \in (DOMAIN P) \ {"history"} : new[f] = P[f]
                /\ \A f \in (DOMAIN old) \ ((DOMAIN P) \cup {"history"}) : new[f] = old[f]
                /\ "history" \in DOMAIN new =>
                      /\ Len(new.history) <= 3
                      /\ FirstOf(new.history,
                                 IF "history" \in DOMAIN P THEN P.history ELSE old.history, 3)
                /\ \A x \in (DOMAIN prefs) \ {k} : x \in DOMAIN prefs' /\ prefs'[x] = prefs[x]
                /\ DOMAIN prefs' = (DOMAIN prefs) \cup {k}]_vars
\* a record in which one set call added notify_ha, a later one overwrote
\* last_action and kept notify_ha, and one cut a history of four to three
C21_Witness ==
    \E k \in DOMAIN prefs :
       /\ DOMAIN prefs[k] = {"last_action", "notify_ha", "history"}
       /\ prefs[k].last_action = ACTION_ON
       /\ prefs[k].history = <<RelativeEntry(5, 1), RelativeEntry(10, 1), RelativeEntry(15, 1)>>
       /\ calls = 3

\* what get_preferences and get_all_preferences answer now
AnswerOf(k) == get_preferences(Machine, k).value
AnswerOfAll == get_all_preferences(Machine).value

\* C22: no change a caller makes to a structure returned by get_preferences or
\* get_all_preferences, at any nesting level, changes the store: what the
\* two calls answer afterwards, and the map that is persisted, are as before.
C22_ReturnedCopiesAreDetached ==
    [][\A i \in 1..Len(handed), k \in Keys, level \in LevelsOfMap :
          CallerMutates(i, k, level) =>
             /\ prefs' = prefs
             /\ \A x \in Keys : get_preferences([Machine EXCEPT !.prefs = prefs'], x).value
                                   = AnswerOf(x)
             /\ get_all_preferences([Machine EXCEPT !.prefs = prefs']).value = AnswerOfAll]_vars
\* a caller has rewritten the first history entry of a record it was handed
\* and another has deleted a key of the map it was handed, while the store
\* still has the key and its entry
C22_Witness ==
    \E i, j \in 1..Len(handed), k \in DOMAIN prefs :
       /\ ~handed[i].all /\ handed[i].key = k
       /\ "history" \in DOMAIN handed[i].value
       /\ handed[i].value.history # << >>
       /\ handed[i].value.history[1].timestamp = 0
       /\ handed[j].all /\ k \notin DOMAIN handed[j].value
       /\ "history" \in DOMAIN prefs[k]
       /\ prefs[k].history # << >>
       /\ prefs[k].history[1].timestamp = 1

\* C23: a push to the sensor never fails its caller: no call that pushes the
\* preferences or the task map ends with the exception of a push.
C23_PushNeverFailsCaller ==
    \A i \in 1..Len(returned) : returned[i].res # "AttributeError"

\* the step in which a state change makes a listener start a cancellation
ListenerCancels ==
    /\ changes' = changes + 1
    /\ Len(procs') = Len(procs) + 1

\* C24: a task has a state-change listener if and only if its run_now flag is
\* not set: a key with a timer handle has a record, and it has a listener
\* exactly when the record is not run_now; no listener is without a handle;
\* and a state change starts a cancellation only for a task that is not
\* run_now.
C24_ListenerIffNotRunNow ==
    [][/\ \A k \in DOMAIN scheduled_tasks' :
             /\ k \in DOMAIN data'
             /\ k \in DOMAIN state_listeners' <=> ~data'[k].run_now
       /\ DOMAIN state_listeners' \subseteq DOMAIN scheduled_tasks'
       /\ ListenerCancels =>
             LET k == Last(procs').key
             IN k \in DOMAIN data /\ ~data[k].run_now]_vars
\* restore has re-armed a run_now task: its timer is armed and it has no listener
C24_Witness ==
    /\ phase = "up"
    /\ \E k \in DOMAIN scheduled_tasks :
          /\ timers[scheduled_tasks[k]].st = "armed"
          /\ k \in DOMAIN data
          /\ data[k].run_now
          /\ k \notin DOMAIN state_listeners

\* the step in which async_restore_tasks returns
RestoreFinishes == phase # "up" /\ phase' = "up"
\* the armed timers of key k that are set to the time and the action of its record
ArmedAsRecorded(k) ==
    {t \in ArmedTimers(k) : /\ timers[t].end = RestoreTime(data[k])
                            /\ timers[t].action = data[k].action}
\* the timers of key k that have fired and whose callback has not returned
FiredInFlight(k) ==
    {t \in 1..Len(timers) :
        /\ timers[t].key = k
        /\ timers[t].st = "fired"
        /\ \E i \in 1..Len(procs) : procs[i].kind = "exec" /\ procs[i].tid = t}

\* C25 as stated: when restore has finished, every record left in the Task
\* Store has its time strictly after the restore's now and exactly one armed
\* timer for its key, set to that time with the record's action.
C25_RestoredRecordsArmed ==
    [][RestoreFinishes =>
          \A k \in DOMAIN data' :
             /\ RestoreTime(data'[k]) > boot'.now
             /\ Cardinality(ArmedTimers(k)') = 1
             /\ ArmedAsRecorded(k)' = ArmedTimers(k)']_vars

\* C25: when restore has finished, every record left in the Task Store has
\* its time strictly after the restore's now and exactly one timer of its
\* key that is armed or has fired with its callback still running; an armed
\* one is set to the record's time with the record's action, a fired one was
\* due. No record is left without a timer.
C25_RestoredRecordsHaveTimer ==
    [][RestoreFinishes =>
          \A k \in DOMAIN data' :
             /\ RestoreTime(data'[k]) > boot'.now
             /\ Cardinality(ArmedTimers(k)' \cup FiredInFlight(k)') = 1
             /\ ArmedAsRecorded(k)' = ArmedTimers(k)'
             /\ \A t \in FiredInFlight(k)' :
                   /\ timers'[t].end = RestoreTime(data'[k])
                   /\ timers'[t].action = data'[k].action
                   /\ timers'[t].end <= clock']_vars
\* restore has finished and nothing has happened since: a record is left and
\* its timer is armed for a later time
C25_Witness ==
    /\ phase = "up"
    /\ calls = 0 /\ changes = 0 /\ procs = << >>
    /\ \E k \in DOMAIN data :
          /\ ArmedAsRecorded(k) # {}
          /\ RestoreTime(data[k]) > boot.now
          /\ RestoreTime(data[k]) > clock

\* a record with no time to read: its end_time, or without one its
\* scheduled_time, is absent or is text that is no time
NoReadableTime(task) ==
    IF task.end_time # NoTimeField THEN task.end_time = GarbageTime
    ELSE task.scheduled_time \in {NoTimeField, GarbageTime}
\* the loaded records with no time to read
Unparsable == {k \in DOMAIN boot.snap : NoReadableTime(boot.snap[k])}
\* the timers made for key k
TimersOf(k) == {t \in 1..Len(timers) : timers[t].key = k}

\* C26: a record whose time cannot be parsed is deleted by restore: no timer
\* is made for it and the executor is not invoked for it, restore returns,
\* after which the record is in neither the store nor the durable image, and
\* every other loaded record has been processed: it has a timer of its own.
C26_UnparsableDropped ==
    /\ \A k \in Unparsable :
          /\ TimersOf(k) = {}
          /\ phase = "up" => k \notin DOMAIN data /\ k \notin DOMAIN disk
    /\ (phase = "up" /\ Unparsable # {}) =>
          \A k \in (DOMAIN boot.snap) \ Unparsable : TimersOf(k) # {}
\* restore has returned after dropping an unparsable record next to a record
\* that it re-armed
C26_Witness ==
    /\ phase = "up"
    /\ \E k \in Unparsable, x \in DOMAIN data :
          /\ k \notin DOMAIN data
          /\ k \notin DOMAIN disk
          /\ x \in DOMAIN boot.snap
          /\ ArmedTimers(x) # {}

\* the entries of a history whose composite key is not that of entry e, in
\* the order they have in the history
OthersOf(history, e) == SelectSeq(history, LAMBDA h : entry_key(h) # entry_key(e))

\* C27: add_to_history(key, e) puts e at index 0, removes every entry with the
\* composite key of e, keeps the other entries in their previous order behind
\* e, and keeps three entries at most; the other fields of the record and the
\* other keys stay as they are.
C27_AddToHistoryPutsFirst ==
    [][\A k \in Keys, e \in PrefEntries :
          CallAddToHistory(k, e) =>
             LET old == RecordOf(prefs, k)
                 new == RecordOf(prefs', k)
                 others == OthersOf(HistoryOf(k), e)
             IN /\ "history" \in DOMAIN new
                /\ new.history[1] = e
                /\ Len(new.history) = (IF Len(others) < 2 THEN Len(others) + 1 ELSE 3)
                /\ \A i \in 2..Len(new.history) : new.history[i] = others[i - 1]
                /\ \A i \in 2..Len(new.history) : entry_key(new.history[i]) # entry_key(e)
                /\ DOMAIN new = (DOMAIN old) \cup {"history"}
                /\ \A f \in (DOMAIN old) \ {"history"} : new[f] = old[f]
                /\ \A x \in (DOMAIN prefs) \ {k} : x \in DOMAIN prefs' /\ prefs'[x] = prefs[x]]_vars
\* a history of three was given a new parameter set, which pushed the oldest
\* out, and then the first set again at a later time, which replaced its
\* earlier entry
C27_Witness ==
    \E k \in Keys :
       HistoryOf(k) = <<RelativeEntry(5, 2), RelativeEntry(20, 1), RelativeEntry(10, 1)>>

\* the step is one of the preference writes: set_preferences, or a schedule
\* call going on from its store write to its history entry and from there to
\* its last-used parameters
WritesPreferences ==
    \/ \E k \in Keys, preferences \in LifePayloads : CallSetPreferences(k, preferences)
    \/ \E i \in ScheduleCalls : procs[i].pc \in {"s_add", "s_hist"} /\ SaveDone(i)
\* a schedule call returns after it has stored its task and armed its timer
ScheduleSucceeds == Returns("schedule") /\ Last(returned').res = "ok"

\* C28: a schedule call that persists a task has, when it returns, written
\* the preference record of its key: its last-used parameters and, at the
\* front of the history, the entry of the call. No other step changes the
\* preference map: cancel, cleanup, timer execution, restore, unload and
\* restart leave it as it is.
C28_PreferencesOutliveTasks ==
    [][/\ ScheduleSucceeds =>
            LET q == Last(returned')
                rec == RecordOf(prefs', q.key)
            IN /\ {"history", "last_action", "last_time_mode"} \subseteq DOMAIN rec
               /\ rec.last_action = q.action
               /\ rec.last_time_mode = q.time_mode
               /\ rec.history # << >>
               /\ rec.history[1].action = q.action
       /\ prefs' # prefs => WritesPreferences]_vars
\* preferences were set for a key, then its task was cancelled on request:
\* the record of the task is gone, the preferences are there
C28_Witness ==
    /\ Len(returned) = 2
    /\ returned[1].kind = "set_preferences"
    /\ returned[2].kind = "cancel" /\ returned[2].res = "true"
    /\ returned[2].key = returned[1].key
    /\ returned[2].key \notin DOMAIN data
    /\ returned[2].key \in DOMAIN prefs

\* C29: a task never has both terminal events, and never one of them twice:
\* the events of a timer are at most one task_completed or one task_cancelled.
C29_OneTerminalEvent ==
    \A t \in 1..Len(timers) :
       Len(timers[t].task_completed) + Len(timers[t].task_cancelled) <= 1

\* the schedule calls that returned after finding the handle of timer t, which
\* had fired already: they were made while the handler of t was in flight
ScheduledDuring(t) ==
    {j \in 1..Len(returned) :
        /\ returned[j].kind = "schedule"
        /\ returned[j].res # "aborted"
        /\ returned[j].rets # << >>
        /\ returned[j].rets[1][3] = t
        /\ timers[t].st = "fired"}

HandleOf(k, t) == k \in DOMAIN scheduled_tasks /\ scheduled_tasks[k] = t

\* C31: every armed timer is the one whose handle the handle map holds under
\* its key; a handle stays in the map, unchanged, as long as its timer stays
\* armed; a cancel call for a key with an armed timer disarms it in the same
\* step and returns true, and a disarmed timer never runs its callback.
C31_ArmedTimerCancellable ==
    /\ [](\A t \in 1..Len(timers) :
             /\ timers[t].st = "armed" => HandleOf(timers[t].key, t)
             /\ timers[t].st = "cancelled" => timers[t].execute = << >>)
    /\ [](\A j \in CancelCalls : returned[j].tid # 0 => returned[j].res = "true")
    /\ [][\A t \in 1..Len(timers) :
             (timers[t].st = "armed" /\ timers'[t].st = "armed")
                => HandleOf(timers[t].key, t)']_vars
    /\ [][\A k \in Keys :
             (CallCancel(k) /\ ArmedTimers(k) # {})
                => /\ ArmedTimers(k)' = {}
                   /\ \A t \in ArmedTimers(k) : timers'[t].st = "cancelled"]_vars

\* a cancel call found the handle of an armed timer, disarmed it and returned
\* true, while the timer of another key is still armed
C31_Witness ==
    \E j \in CancelCalls :
       /\ returned[j].tid # 0
       /\ returned[j].res = "true"
       /\ timers[returned[j].tid].st = "cancelled"
       /\ \E t \in 1..Len(timers) :
             timers[t].st = "armed" /\ HandleOf(timers[t].key, t)

\* the timers that stand for the record now stored under their key: the armed
\* ones, and the ones whose handler is in flight
LiveFor(t) ==
    /\ timers[t].key \in DOMAIN data
    /\ \/ timers[t].st = "armed"
       \/ timers[t].st \in {"replay", "fired"} /\ Handling(t)

\* C32: the callback of a task that restore re-armed or replayed carries the
\* notification flag persisted in the task's record, so a record stored with
\* the flag set notifies on completion.
C32_RestoredKeepsNotifyFlags ==
    \A t \in 1..Len(timers) : LiveFor(t) => timers[t].nflag = data[timers[t].key].notify_ha

\* the step in which async_unload_entry returns after a successful unload
UnloadReturns == Returns("unload") /\ Last(returned').res = "ok"

\* no coroutine of async_unload_entry is suspended in a notification call
NoUnloadNotification ==
    \A i \in 1..Len(procs) : procs[i].kind = "unload" => procs[i].pc # "c_notify"

\* C33: when async_unload_entry returns after a successful unload, the handle
\* map and the listener map are empty and no timer is armed; every key the
\* sweep went over was cancelled by it: the call returned true, the record is
\* gone and the task has one task_cancelled event; the sweep never notifies.
C33_UnloadCancelsEveryTask ==
    /\ []NoUnloadNotification
    /\ [][UnloadReturns
          => LET q == Last(returned')
             IN /\ scheduled_tasks' = EmptyDict
                /\ state_listeners' = EmptyDict
                /\ \A t \in 1..Len(timers') : timers'[t].st # "armed"
                /\ \A n \in 1..Len(q.rets) :
                      /\ q.rets[n][2]
                      /\ q.rets[n][1] \notin DOMAIN data'
                      /\ Len(timers'[q.rets[n][3]].task_cancelled) = 1]_vars

\* C33 (amended): when async_unload_entry returns after a successful unload,
\* the handle map and the listener map are empty, no timer is armed and no
\* key the sweep went over has a record; each key for which the sweep's cancel
\* returned true has one task_cancelled event for its task, and the sweep
\* never notifies. A key whose task another cancel call or the task's own
\* handler took during the sweep gets its event from that one.
C33_UnloadLeavesNothingArmed ==
    /\ []NoUnloadNotification
    /\ [][UnloadReturns
          => LET q == Last(returned')
             IN /\ scheduled_tasks' = EmptyDict
                /\ state_listeners' = EmptyDict
                /\ \A t \in 1..Len(timers') : timers'[t].st # "armed"
                /\ \A n \in 1..Len(q.rets) :
                      /\ q.rets[n][1] \notin DOMAIN data'
                      /\ q.rets[n][2]
                            => Len(timers'[q.rets[n][3]].task_cancelled) = 1]_vars

\* an unload swept two keys: it cancelled the first and found the second
\* taken by someone else during its await
C33_Witness ==
    \E j \in 1..Len(returned) :
       /\ returned[j].kind = "unload"
       /\ returned[j].res = "ok"
       /\ Len(returned[j].rets) = 2
       /\ returned[j].rets[1][2]
       /\ ~returned[j].rets[2][2]
       /\ timers[returned[j].rets[1][3]].task_cancelled = <<"user_request">>
       /\ scheduled_tasks = EmptyDict
       /\ state_listeners = EmptyDict

====
